---- MODULE Spec2Model ----
(***************************************************************************)
(* Model of apps/common/kernel/convolution.h: the four SPMD convolution    *)
(* kernels and the image utilities (init, zero, verify).                   *)
(*                                                                         *)
(* A lane's call of an entry point is one action.  Buffers are functions   *)
(* from the row-major linear index 0..in_x*in_y-1 to int32 values.         *)
(* A uint32 value is represented by the int32 with the same bit pattern    *)
(* (u for u < 2^31, u - 2^32 otherwise); ULT and UDIV are the unsigned     *)
(* comparison and division on that representation.                         *)
(*                                                                         *)
(* Image dimensions and lane counts are at least 1 and lane ids lie in     *)
(* 0..numThreads-1.  Image values and kernel weights are small, so that no *)
(* weighted sum leaves the int32 range.  A call whose loop bound wrapped   *)
(* around accesses memory past its buffers: fault records that it did, a   *)
(* read past the input returns one of several values, and the stores that  *)
(* fall inside the output buffer are made.                                 *)
(*                                                                         *)
(* Spec runs the four kernels one after the other on the same input, each  *)
(* into its own output buffer; SpecTest runs the image utilities: init,    *)
(* verify, and init, zero, the 3x3 shifted kernel, verify.  wr records     *)
(* which lanes stored to each output element and pre holds the buffers as  *)
(* they were when the current phase began.                                 *)
(***************************************************************************)
EXTENDS Integers, Sequences, FiniteSets, TLC

VARIABLES in_x, in_y, k, k_x, k_y, numThreads, mem, wr, fault, prog, pc,
          done, ret, pre, corrupt

vars == <<in_x, in_y, k, k_x, k_y, numThreads, mem, wr, fault, prog, pc,
          done, ret, pre, corrupt>>

\* ---------------------------------------------------------------- bounds
MaxX == 5
MaxY == 5
MaxThreads == 3
MaxSeed == 2
\* values an out-of-bounds read may return: -Garbage..Garbage
Garbage == 1
\* the largest stride at which the test harness alters elements
MaxStride == 7

\* ------------------------------------------------------------- constants
RowPeriod == 16
ColPeriod == 4
IntMax == 2147483647

Kernels == { "par", "shifted", "unrolled", "shifted_unrolled" }
Buffers == Kernels \cup { "in" }

Lanes == 0 .. (numThreads - 1)
Size == in_x * in_y
Index == 0 .. (Size - 1)
AllDone == done = Lanes
call == IF pc <= Len(prog) THEN prog[pc].op ELSE "end"
target == prog[pc].buf

\* ------------------------------------------------- 32-bit arithmetic
\* a < b for two uint32 operands (the usual arithmetic conversions turn an
\* int compared with a uint32 into a uint32)
ULT(a, b) == IF (a >= 0) = (b >= 0) THEN a < b ELSE b < 0

\* sum / weight with int32 sum and uint32 weight: the sum is converted to
\* uint32, the division is unsigned, the quotient is stored as int32
UDIV(s, w) ==
  IF s >= 0 THEN s \div w
  ELSE IF w = 1 THEN s
  ELSE 2 * (IntMax \div w) + ((2 * (IntMax % w) + 2 + s) \div w)

\* in[idx]; an index outside the buffer reads whatever lies there (g)
InAt(idx, g) == IF idx \in Index THEN mem["in"][idx] ELSE g

\* weight += k[i] for i below n
RECURSIVE Weight(_)
Weight(n) == IF n = 0 THEN 0 ELSE Weight(n - 1) + k[n - 1]

\* a loop whose bound wrapped around runs on past the buffers; once the call
\* has left the buffers (st.fault) and the loop counter c is beyond their
\* size, no later iteration touches them and the loop is not followed
\* further; neither is it beyond ScanMax, where every lane has had an
\* iteration beyond the size
ScanMax == Size + numThreads
Beyond(st, c) == (st.fault /\ c >= Size) \/ c > ScanMax

\* the effect of the statement out[idx] = val in a call that has reached
\* st; top is the highest index of in read for it
Assign(st, idx, val, top) ==
  IF idx \in Index
    THEN [out |-> [st.out EXCEPT ![idx] = val],
          hit |-> st.hit \cup {idx},
          fault |-> st.fault \/ top \notin Index]
    ELSE [st EXCEPT !.fault = TRUE]

Entry(v) == [out |-> mem[v], hit |-> {}, fault |-> FALSE]

\* ------------------------------------------------------ conv2d_parallel
boundary_x == k_x \div 2
boundary_y == k_y \div 2

\* the lane id clamped to the boundary instead of advanced by numThreads
AdvanceId_Clamp(id) == IF ULT(id, boundary_x) THEN boundary_x ELSE id

RECURSIVE AdvanceId(_)
AdvanceId(id) ==
  IF ULT(id, boundary_x) THEN AdvanceId(id + numThreads) ELSE id

ParReadIndex(i, j, m, n) == (j + m) * in_x + (i + n)

RECURSIVE ParSum(_, _, _, _, _)
ParSum(i, j, m, n, g) ==
  IF m >= k_y - boundary_y THEN 0
  ELSE IF n >= k_x - boundary_x THEN ParSum(i, j, m + 1, -boundary_x, g)
  ELSE InAt(ParReadIndex(i, j, m, n), g)
         * k[(m + boundary_y) * k_x + (n + boundary_x)]
       + ParSum(i, j, m, n + 1, g)

ParWriteIndex(i, j) == j * in_x + i

RECURSIVE ParRows(_, _, _, _, _)
ParRows(st, i, j, weight, g) ==
  IF ~ULT(j, in_y - boundary_y) \/ Beyond(st, j) THEN st
  ELSE ParRows(Assign(st, ParWriteIndex(i, j),
                      UDIV(ParSum(i, j, -boundary_y, -boundary_x, g), weight),
                      ParReadIndex(i, j, k_y - boundary_y - 1,
                                   k_x - boundary_x - 1)),
               i, j + 1, weight, g)

RECURSIVE ParCols(_, _, _, _)
ParCols(st, i, weight, g) ==
  IF ~ULT(i, in_x - boundary_x) \/ Beyond(st, i) THEN st
  ELSE ParCols(ParRows(st, i, boundary_y, weight, g),
               i + numThreads, weight, g)

ParRun(id, g) ==
  ParCols(Entry("par"), AdvanceId(id), Weight(k_x * k_y), g)

\* ---------------------------------------------- conv2d_shifted_parallel
ShiftedReadIndex(i, j, m, n) == (j + m) * in_x + (i + n)

RECURSIVE ShiftedSum(_, _, _, _, _)
ShiftedSum(i, j, m, n, g) ==
  IF m >= k_y THEN 0
  ELSE IF n >= k_x THEN ShiftedSum(i, j, m + 1, 0, g)
  ELSE InAt(ShiftedReadIndex(i, j, m, n), g) * k[m * k_x + n]
       + ShiftedSum(i, j, m, n + 1, g)

\* the column shift left out of the output coordinate
ShiftedWriteIndex_NoColShift(i, j) == (j + boundary_y) * in_x + i

ShiftedWriteIndex(i, j) == (j + boundary_y) * in_x + (i + boundary_x)

RECURSIVE ShiftedRows(_, _, _, _, _)
ShiftedRows(st, i, j, weight, g) ==
  IF ~ULT(j, in_y - (2 * boundary_y)) \/ Beyond(st, j) THEN st
  ELSE ShiftedRows(Assign(st, ShiftedWriteIndex(i, j),
                          UDIV(ShiftedSum(i, j, 0, 0, g), weight),
                          ShiftedReadIndex(i, j, k_y - 1, k_x - 1)),
                   i, j + 1, weight, g)

RECURSIVE ShiftedCols(_, _, _, _)
ShiftedCols(st, i, weight, g) ==
  IF ~ULT(i, in_x - (2 * boundary_x)) \/ Beyond(st, i) THEN st
  ELSE ShiftedCols(ShiftedRows(st, i, 0, weight, g),
                   i + numThreads, weight, g)

ShiftedRun(id, g) ==
  ShiftedCols(Entry("shifted"), id, Weight(k_x * k_y), g)

\* ----------------------------------------- conv2d_3x3_unrolled_parallel
div == in_x \div numThreads
rem == in_x % numThreads

BlockStart(id) == div * id + (IF id < rem THEN id ELSE rem)
BlockEnd(id) == div * (id + 1) + (IF id < rem THEN id ELSE rem)

start(id) == IF ULT(BlockStart(id), 1) THEN 1 ELSE BlockStart(id)
end(id) == IF ULT(in_x - 1, BlockEnd(id)) THEN in_x - 1 ELSE BlockEnd(id)

UnrolledSum(i, j, g) ==
    InAt((j - 1) * in_x + (i - 1), g) * k[0]
  + InAt((j - 1) * in_x + (i + 0), g) * k[1]
  + InAt((j - 1) * in_x + (i + 1), g) * k[2]
  + InAt((j + 0) * in_x + (i - 1), g) * k[3]
  + InAt((j + 0) * in_x + (i + 0), g) * k[4]
  + InAt((j + 0) * in_x + (i + 1), g) * k[5]
  + InAt((j + 1) * in_x + (i - 1), g) * k[6]
  + InAt((j + 1) * in_x + (i + 0), g) * k[7]
  + InAt((j + 1) * in_x + (i + 1), g) * k[8]

UnrolledWriteIndex(i, j) == j * in_x + i

RECURSIVE UnrolledRows(_, _, _, _, _)
UnrolledRows(st, i, j, weight, g) ==
  IF ~ULT(j, in_y - 1) \/ Beyond(st, j) THEN st
  ELSE UnrolledRows(Assign(st, UnrolledWriteIndex(i, j),
                           UDIV(UnrolledSum(i, j, g), weight),
                           (j + 1) * in_x + (i + 1)),
                    i, j + 1, weight, g)

RECURSIVE UnrolledCols(_, _, _, _, _)
UnrolledCols(st, i, last, weight, g) ==
  IF ~ULT(i, last) \/ Beyond(st, i) THEN st
  ELSE UnrolledCols(UnrolledRows(st, i, 1, weight, g),
                    i + 1, last, weight, g)

UnrolledRun(id, g) ==
  UnrolledCols(Entry("unrolled"), start(id), end(id), Weight(9), g)

\* --------------------------------- conv2d_3x3_shifted_unrolled_parallel
ShiftedUnrolledSum(i, j, g) ==
    InAt((j + 0) * in_x + (i + 0), g) * k[0]
  + InAt((j + 0) * in_x + (i + 1), g) * k[1]
  + InAt((j + 0) * in_x + (i + 2), g) * k[2]
  + InAt((j + 1) * in_x + (i + 0), g) * k[3]
  + InAt((j + 1) * in_x + (i + 1), g) * k[4]
  + InAt((j + 1) * in_x + (i + 2), g) * k[5]
  + InAt((j + 2) * in_x + (i + 0), g) * k[6]
  + InAt((j + 2) * in_x + (i + 1), g) * k[7]
  + InAt((j + 2) * in_x + (i + 2), g) * k[8]

\* the result stored at the window's corner instead of its centre
ShiftedUnrolledWriteIndex_Corner(i, j) == j * in_x + i

ShiftedUnrolledWriteIndex(i, j) == (j + 1) * in_x + (i + 1)

RECURSIVE ShiftedUnrolledRows(_, _, _, _, _)
ShiftedUnrolledRows(st, i, j, weight, g) ==
  IF ~ULT(j, in_y - 2) \/ Beyond(st, j) THEN st
  ELSE ShiftedUnrolledRows(Assign(st, ShiftedUnrolledWriteIndex(i, j),
                                  UDIV(ShiftedUnrolledSum(i, j, g), weight),
                                  (j + 2) * in_x + (i + 2)),
                           i, j + 1, weight, g)

RECURSIVE ShiftedUnrolledCols(_, _, _, _)
ShiftedUnrolledCols(st, i, weight, g) ==
  IF ~ULT(i, in_x - 2) \/ Beyond(st, i) THEN st
  ELSE ShiftedUnrolledCols(ShiftedUnrolledRows(st, i, 0, weight, g),
                           i + numThreads, weight, g)

ShiftedUnrolledRun(id, g) ==
  ShiftedUnrolledCols(Entry("shifted_unrolled"), id, Weight(9), g)

\* ------------------------------------------------- one call by one lane
Run(v, id, g) ==
  CASE v = "par" -> ParRun(id, g)
    [] v = "shifted" -> ShiftedRun(id, g)
    [] v = "unrolled" -> UnrolledRun(id, g)
    [] v = "shifted_unrolled" -> ShiftedUnrolledRun(id, g)

\* the buffers after a call that ended in r
Return(v, id, r) ==
  /\ mem' = [mem EXCEPT ![v] = r.out]
  /\ wr' = [wr EXCEPT ![v] =
              [p \in Index |->
                 IF p \in r.hit THEN wr[v][p] \cup {id} ELSE wr[v][p]]]
  /\ fault' = [fault EXCEPT ![v] = fault[v] \/ r.fault]

\* a call that reads past the input buffer finds one of several values there
Outcomes(v, id, r0) ==
  IF r0.fault
    THEN { Run(v, id, g) : g \in (-Garbage) .. Garbage }
    ELSE { r0 }

Conv(v, id) ==
  /\ call = v
  /\ id \in Lanes \ done
  /\ \E r \in Outcomes(v, id, Run(v, id, 0)) : Return(v, id, r)
  /\ done' = done \cup {id}
  /\ UNCHANGED <<in_x, in_y, k, k_x, k_y, numThreads, prog, pc, ret, pre,
                 corrupt>>

conv2d_parallel(id) == Conv("par", id)
conv2d_shifted_parallel(id) == Conv("shifted", id)
conv2d_3x3_unrolled_parallel(id) == Conv("unrolled", id)
conv2d_3x3_shifted_unrolled_parallel(id) == Conv("shifted_unrolled", id)

\* ---------------------------------------------------- image utilities
\* the elements lane id visits in init_conv2d_image and zero_conv2d_image:
\* strided over rows when img_y > img_x, over columns otherwise
OwnedCells(id) ==
  IF ULT(in_x, in_y)
    THEN { <<i, j>> \in (0 .. in_y) \X (0 .. in_x) :
             i >= id /\ (i - id) % numThreads = 0 /\ ULT(i, in_y) /\ ULT(j, in_x) }
    ELSE { <<i, j>> \in (0 .. in_y) \X (0 .. in_x) :
             j >= id /\ (j - id) % numThreads = 0 /\ ULT(j, in_x) /\ ULT(i, in_y) }

\* the column term taken modulo 2
InitValue_Mod2(i, j) == (i % RowPeriod) + (j % 2)

InitValue(i, j) == (i % RowPeriod) + (j % ColPeriod)

InitImage(img, id) ==
  [p \in DOMAIN img |->
     IF <<p \div in_x, p % in_x>> \in OwnedCells(id)
       THEN InitValue(p \div in_x, p % in_x) ELSE img[p]]

ZeroImage(img, id) ==
  [p \in DOMAIN img |->
     IF <<p \div in_x, p % in_x>> \in OwnedCells(id) THEN 0 ELSE img[p]]

init_conv2d_image(id) ==
  /\ call = "init"
  /\ id \in Lanes \ done
  /\ mem' = [mem EXCEPT ![target] = InitImage(mem[target], id)]
  /\ done' = done \cup {id}
  /\ UNCHANGED <<in_x, in_y, k, k_x, k_y, numThreads, wr, fault, prog, pc,
                 ret, pre, corrupt>>

zero_conv2d_image(id) ==
  /\ call = "zero"
  /\ id \in Lanes \ done
  /\ mem' = [mem EXCEPT ![target] = ZeroImage(mem[target], id)]
  /\ done' = done \cup {id}
  /\ UNCHANGED <<in_x, in_y, k, k_x, k_y, numThreads, wr, fault, prog, pc,
                 ret, pre, corrupt>>

\* the value verify_conv2d_image expects at row i, column j
\* the row term without the adjustment at the pattern's seam
ExpectedY_NoSeam(i) == i % RowPeriod

ExpectedY(i) ==
  IF i % RowPeriod = RowPeriod - 1 THEN 11
  ELSE IF i % RowPeriod = 0 THEN 4
  ELSE i % RowPeriod

ExpectedX(j) == ((j % ColPeriod) \div 2) + 1

Expected(i, j) == ExpectedX(j) + ExpectedY(i)

\* the failure code without the row stride
FailCode_NoStride(i, j) == IF (i + j) = 0 THEN -1 ELSE i + j

FailCode(i, j) == IF (i + j) = 0 THEN -1 ELSE i * in_x + j

\* the scan of lane id from row i, column j on
RECURSIVE VerifyScan(_, _, _)
VerifyScan(img, i, j) ==
  IF ~ULT(i, in_y - 1) THEN [ret |-> 0, img |-> img]
  ELSE IF ~ULT(j, in_x - 1) THEN VerifyScan(img, i + numThreads, 1)
  ELSE IF img[i * in_x + j] # Expected(i, j)
    THEN [ret |-> FailCode(i, j), img |-> img]
  ELSE VerifyScan([img EXCEPT ![i * in_x + j] = 0], i, j + 1)

verify_conv2d_image(id) ==
  /\ call = "verify"
  /\ id \in Lanes \ done
  /\ \E r \in { VerifyScan(mem[target], id + 1, 1) } :
       /\ mem' = [mem EXCEPT ![target] = r.img]
       /\ ret' = (id :> r.ret) @@ ret
  /\ done' = done \cup {id}
  /\ UNCHANGED <<in_x, in_y, k, k_x, k_y, numThreads, wr, fault, prog, pc,
                 pre, corrupt>>

\* ------------------------------------------------------------- caller
\* the barrier the caller places after each phase: every lane has returned
\* from the entry point before any lane enters the next one
Barrier ==
  /\ call \in Kernels \cup {"init", "zero", "verify"}
  /\ AllDone
  /\ pc' = pc + 1
  /\ done' = {}
  /\ pre' = mem
  /\ UNCHANGED <<in_x, in_y, k, k_x, k_y, numThreads, mem, wr, fault, prog,
                 ret, corrupt>>

\* the test harness alters elements of the buffer before it is verified
Corrupted(buf) ==
  [p \in DOMAIN buf |->
     IF corrupt.stride > 0 /\ p % corrupt.stride = corrupt.offset
       THEN buf[p] + 1 ELSE buf[p]]

Corrupt ==
  /\ call = "corrupt"
  /\ mem' = [mem EXCEPT ![target] = Corrupted(mem[target])]
  /\ pre' = mem'
  /\ pc' = pc + 1
  /\ UNCHANGED <<in_x, in_y, k, k_x, k_y, numThreads, wr, fault, prog, done,
                 ret, corrupt>>

\* -------------------------------------------------------------- inputs
ZeroIndexed(s) == [t \in 0 .. (Len(s) - 1) |-> s[t + 1]]

Ones3x3 == <<1, 1, 1, 1, 1, 1, 1, 1, 1>>
Identity3x3 == <<0, 0, 0, 0, 1, 0, 0, 0, 0>>
Gauss3x3 == <<1, 2, 1, 2, 4, 2, 1, 2, 1>>

KernelSet ==
  { [x |-> 1, y |-> 1, w |-> <<2>>],
    [x |-> 3, y |-> 1, w |-> <<1, 1, 1>>],
    [x |-> 1, y |-> 3, w |-> <<3, 0, 1>>],
    [x |-> 3, y |-> 3, w |-> Ones3x3],
    [x |-> 3, y |-> 3, w |-> Identity3x3],
    [x |-> 3, y |-> 3, w |-> Gauss3x3],
    [x |-> 3, y |-> 3, w |-> <<1, 0, 0, 0, 0, 2, 0, 3, 0>>],
    [x |-> 5, y |-> 3, w |-> <<1, 1, 1, 1, 1, 1, 1, 1, 1, 1, 1, 1, 1, 1, 1>>],
    [x |-> 2, y |-> 2, w |-> <<1, 2, 3, 4>>] }

Pattern(seed, i, j) ==
  IF seed = 0 THEN InitValue(i, j)
  ELSE IF seed = 1 THEN 0 - InitValue(i, j) - 1
  ELSE ((seed * 7 * i + 3 * j * j + i * j + seed) % 5) - 2

Image(x, y, seed) ==
  [p \in 0 .. (x * y - 1) |-> Pattern(seed, p \div x, p % x)]

\* what an output buffer holds before a call: zeroes, or other values
Fills == { 0, 100 }

Blank(x, y, v) == [p \in 0 .. (x * y - 1) |-> v]

ConvProgram(kern) ==
  LET c(v) == [op |-> v, buf |-> v]
  IN IF kern.x = 3 /\ kern.y = 3
       THEN << c("par"), c("shifted"), c("unrolled"), c("shifted_unrolled") >>
       ELSE << c("par"), c("shifted") >>

InitCommon ==
  /\ in_x \in 1 .. MaxX
  /\ numThreads \in 1 .. MaxThreads
  /\ wr = [v \in Kernels |-> [p \in Index |-> {}]]
  /\ fault = [v \in Kernels |-> FALSE]
  /\ pc = 1
  /\ done = {}
  /\ ret = [id \in {} |-> 0]
  /\ pre = mem

InitConv ==
  /\ in_y \in 1 .. MaxY
  /\ \E kern \in KernelSet :
       /\ k_x = kern.x
       /\ k_y = kern.y
       /\ k = ZeroIndexed(kern.w)
       /\ prog = ConvProgram(kern)
  /\ \E seed \in 0 .. MaxSeed, x \in 1 .. MaxX, f \in Fills :
       /\ in_x = x
       /\ mem = [b \in Buffers |->
                   IF b = "in" THEN Image(x, in_y, seed) ELSE Blank(x, in_y, f)]
  /\ corrupt = [stride |-> 0, offset |-> 0]
  /\ InitCommon

NextConv ==
  \/ \E id \in Lanes : conv2d_parallel(id)
  \/ \E id \in Lanes : conv2d_shifted_parallel(id)
  \/ \E id \in Lanes : conv2d_3x3_unrolled_parallel(id)
  \/ \E id \in Lanes : conv2d_3x3_shifted_unrolled_parallel(id)
  \/ Barrier

Spec == InitConv /\ [][NextConv]_vars

\* the benchmark's phases: fill the input, (convolve it,) verify
Strides == { 0, 3, MaxStride }

TestPrograms ==
  { << [op |-> "init", buf |-> "in"],
       [op |-> "corrupt", buf |-> "in"],
       [op |-> "verify", buf |-> "in"] >>,
    << [op |-> "init", buf |-> "in"],
       [op |-> "zero", buf |-> "shifted_unrolled"],
       [op |-> "shifted_unrolled", buf |-> "shifted_unrolled"],
       [op |-> "corrupt", buf |-> "shifted_unrolled"],
       [op |-> "verify", buf |-> "shifted_unrolled"] >> }

InitTest ==
  /\ in_y \in (1 .. MaxY) \cup { RowPeriod + 1, RowPeriod + 2 }
  /\ k_x = 3
  /\ k_y = 3
  /\ k = ZeroIndexed(Gauss3x3)
  /\ prog \in TestPrograms
  /\ \E x \in 1 .. MaxX, f \in Fills :
       /\ in_x = x
       /\ mem = [b \in Buffers |-> Blank(x, in_y, f)]
  /\ \E s \in Strides :
       corrupt \in { [stride |-> s, offset |-> t] :
                       t \in 0 .. (IF s = 0 THEN 0 ELSE s - 1) }
  /\ InitCommon

NextTest ==
  \/ \E id \in Lanes : init_conv2d_image(id)
  \/ \E id \in Lanes : zero_conv2d_image(id)
  \/ \E id \in Lanes : conv2d_3x3_shifted_unrolled_parallel(id)
  \/ \E id \in Lanes : verify_conv2d_image(id)
  \/ Corrupt
  \/ Barrier

SpecTest == InitTest /\ [][NextTest]_vars

TypeOK ==
  /\ done \subseteq Lanes
  /\ pc \in 1 .. (Len(prog) + 1)
  /\ \A b \in Buffers : DOMAIN mem[b] = Index
  /\ DOMAIN ret \subseteq Lanes

\* ============================================================ properties
Row(p) == p \div in_x
Col(p) == p % in_x

\* the elements at least bx columns and by rows away from every edge
Interior(bx, by) ==
  { p \in Index : /\ bx <= Col(p) /\ Col(p) < in_x - bx
                  /\ by <= Row(p) /\ Row(p) < in_y - by }

\* every lane has returned from entry point v
Finished(v) ==
  \E n \in 1 .. Len(prog) :
     prog[n].op = v /\ (pc > n \/ (pc = n /\ AllDone))

Odd(n) == n % 2 = 1
AllOnes == \A t \in DOMAIN k : k[t] = 1
Strided == { "par", "shifted", "shifted_unrolled" }
Idle(v, id) == \A p \in Index : id \notin wr[v][p]

RECURSIVE SumOver(_, _)
SumOver(f, S) ==
  IF S = {} THEN 0
  ELSE LET x == CHOOSE x \in S : TRUE IN f[x] + SumOver(f, S \ {x})

\* the input elements under a k_x by k_y window centred on p
WindowOf(p) ==
  { (Row(p) - boundary_y + m) * in_x + (Col(p) - boundary_x + n) :
      m \in 0 .. (k_y - 1), n \in 0 .. (k_x - 1) }

TruncDiv(a, b) == IF a >= 0 THEN a \div b ELSE 0 - ((0 - a) \div b)

\* ---------------------------------------------------------------- C1
BlockRange(id) == { c \in 0 .. in_x : start(id) <= c /\ c < end(id) }

\* C1: the column ranges [start, end) of the lanes of
\* conv2d_3x3_unrolled_parallel are pairwise disjoint and their union is
\* exactly the interior columns [1, in_x-1).
C1_BlockCover ==
  /\ \A a, b \in Lanes : a # b => BlockRange(a) \cap BlockRange(b) = {}
  /\ UNION { BlockRange(id) : id \in Lanes } = 1 .. (in_x - 2)

\* ---------------------------------------------------------------- C2
\* C2: once every lane has run the block-partitioned and the strided 3x3
\* kernel on the same input (an image of at least 3x3 elements) into
\* buffers with the same initial contents, the two outputs are identical.
C2_BlockEqualsStrided ==
  (/\ Finished("unrolled") /\ Finished("shifted_unrolled")
   /\ in_x >= 3 /\ in_y >= 3)
    => mem["unrolled"] = mem["shifted_unrolled"]

\* ---------------------------------------------------------------- C3
\* C3: for a kernel of odd size, once every lane has run conv2d_parallel
\* and conv2d_shifted_parallel, the two outputs agree at every coordinate
\* with k_x/2 <= x < in_x - k_x/2 and k_y/2 <= y < in_y - k_y/2.
C3_CenteredEqualsShifted ==
  (/\ Finished("par") /\ Finished("shifted")
   /\ Odd(k_x) /\ Odd(k_y))
    => \A p \in Interior(boundary_x, boundary_y) :
          mem["par"][p] = mem["shifted"][p]

C3_Witness ==
  /\ Finished("par") /\ Finished("shifted")
  /\ k_x = 5 /\ k_y = 3 /\ in_x = MaxX /\ in_y >= 3 /\ numThreads >= 2
  /\ \E p \in Interior(boundary_x, boundary_y) :
        /\ wr["par"][p] # {} /\ wr["shifted"][p] # {}
        /\ mem["par"][p] \notin Fills

\* ---------------------------------------------------------------- C4
\* C4: for each strided kernel and an image at least as large as the
\* kernel, no output element is ever written by two lanes, and once every
\* lane has returned every element of the valid interior has been written
\* by exactly one lane.
C4_OneWriter ==
  \A v \in Strided :
    (in_x >= k_x /\ in_y >= k_y) =>
       /\ \A p \in Index : Cardinality(wr[v][p]) <= 1
       /\ Finished(v) =>
            \A p \in Interior(boundary_x, boundary_y) :
               Cardinality(wr[v][p]) = 1

\* three lanes on two valid columns: in conv2d_parallel lane 0, advanced
\* past the boundary to column 3, finds no column left; in the shifted
\* kernels lane 2 is the surplus lane
C4_Witness ==
  /\ \A v \in Strided : Finished(v)
  /\ k_x = 3 /\ k_y = 3 /\ in_x = 4 /\ in_y >= 3 /\ numThreads = 3
  /\ AdvanceId(0) = 3 /\ Idle("par", 0)
  /\ Idle("shifted", 2) /\ Idle("shifted_unrolled", 2)
  /\ \A v \in Strided :
        \A p \in Interior(1, 1) : Cardinality(wr[v][p]) = 1

\* ---------------------------------------------------------------- C5
\* C5: no kernel call, for any image size (images smaller than the kernel
\* included), accesses memory outside the buffers or writes an output
\* element outside the valid interior.
C5_BorderUntouched ==
  \A v \in Kernels :
    /\ ~fault[v]
    /\ \A p \in Index \ Interior(boundary_x, boundary_y) : wr[v][p] = {}

\* ---------------------------------------------------------------- C6
\* C6: with an all-ones kernel, every value a kernel writes is the sum of
\* the input values in its window divided by k_x*k_y, truncated toward
\* zero, also when the sum is negative.
C6_AllOnesAverage ==
  AllOnes =>
    \A v \in Kernels :
      ~fault[v] =>
        \A p \in Index :
          wr[v][p] # {} =>
            mem[v][p] = TruncDiv(SumOver(mem["in"], WindowOf(p)), k_x * k_y)

\* ---------------------------------------------------------------- C9
\* C9: for an image of at least 3x3 elements, once every lane has run
\* conv2d_3x3_shifted_unrolled_parallel with the kernel {0,0,0,0,1,0,0,0,0}
\* the output equals the input at every interior coordinate.
C9_IdentityKernel ==
  (/\ Finished("shifted_unrolled")
   /\ k = ZeroIndexed(Identity3x3)
   /\ in_x >= 3 /\ in_y >= 3)
    => \A p \in Interior(1, 1) : mem["shifted_unrolled"][p] = mem["in"][p]

C9_Witness ==
  /\ Finished("shifted_unrolled")
  /\ k = ZeroIndexed(Identity3x3)
  /\ in_x = MaxX /\ in_y = MaxY /\ numThreads >= 2
  /\ mem["in"] = Image(in_x, in_y, 0)
  /\ \A p \in Interior(1, 1) :
        mem["shifted_unrolled"][p] = InitValue(Row(p), Col(p))
  /\ \E p \in Interior(1, 1) : mem["shifted_unrolled"][p] \notin Fills

\* ------------------------------------------------------- C7, C8, C10
RoundTrip == prog[1].op = "init" /\ prog[2].op = "corrupt"
EndToEnd == prog[1].op = "init" /\ prog[2].op = "zero"
Unmodified == corrupt.stride = 0

\* the elements lane id of verify_conv2d_image scans, which it scans in
\* the order of their linear index
ScanSet(id) ==
  { p \in Interior(1, 1) : Row(p) >= id + 1
                           /\ (Row(p) - (id + 1)) % numThreads = 0 }

Mismatches(buf, id) ==
  { p \in ScanSet(id) : buf[p] # Expected(Row(p), Col(p)) }

First(S) == CHOOSE p \in S : \A q \in S : p <= q

\* C7 as stated: after every lane has run init_conv2d_image on a buffer
\* that is not modified otherwise, verify_conv2d_image returns 0 on every
\* lane and, once all lanes have run it, every element of the buffer is 0.
C7_InitVerifyZeroes ==
  (RoundTrip /\ Unmodified /\ call = "verify") =>
     /\ \A id \in done : ret[id] = 0
     /\ AllDone => \A p \in Index : mem["in"][p] = 0

\* C7 amended: for an image of at most 4 columns and at most 16 rows,
\* verify returns 0 on every lane and, once all lanes have run it, every
\* interior element is 0 and every border element holds its init value;
\* for an image of at least 3x3 elements with 5 or more columns or 17 or
\* more rows, some lane returns a non-zero index.
C7_InitVerifySmall ==
  (RoundTrip /\ Unmodified /\ call = "verify") =>
     /\ (in_x <= ColPeriod /\ in_y <= RowPeriod) =>
           /\ \A id \in done : ret[id] = 0
           /\ AllDone =>
                \A p \in Index :
                   mem["in"][p] = IF p \in Interior(1, 1) THEN 0
                                  ELSE InitValue(Row(p), Col(p))
     /\ (/\ in_x >= 3 /\ in_y >= 3
         /\ (in_x > ColPeriod \/ in_y > RowPeriod)
         /\ AllDone) =>
           \E id \in Lanes : ret[id] # 0

C7_Witness ==
  /\ RoundTrip /\ Unmodified /\ call = "verify" /\ AllDone
  /\ in_x = ColPeriod /\ in_y = MaxY /\ numThreads >= 2
  /\ \A id \in Lanes : ret[id] = 0
  /\ \E p \in Interior(1, 1) : pre["in"][p] # 0 /\ mem["in"][p] = 0
  /\ \E p \in Index : mem["in"][p] # 0

\* C8: a lane of verify_conv2d_image returns 0 exactly when every element
\* it scans holds the expected value, and has then reset them all to 0;
\* otherwise it returns the (non-zero) linear index of the first mismatch
\* in its scan order, has reset the elements scanned before it and has
\* left that element and every later one unchanged.
C8_VerifyResult ==
  call = "verify" =>
    /\ \A id \in done :
         LET bad == Mismatches(pre[target], id)
         IN IF bad = {}
              THEN /\ ret[id] = 0
                   /\ \A p \in ScanSet(id) : mem[target][p] = 0
              ELSE /\ ret[id] = First(bad)
                   /\ ret[id] # 0
                   /\ \A p \in ScanSet(id) :
                         mem[target][p] =
                           IF p < First(bad) THEN 0 ELSE pre[target][p]
    /\ \A p \in Index \ UNION { ScanSet(id) : id \in done } :
         mem[target][p] = pre[target][p]

C8_Witness ==
  /\ call = "verify"
  /\ \E id \in done :
       /\ ret[id] # 0
       /\ \E p \in ScanSet(id) :
            p < ret[id] /\ pre[target][p] # 0 /\ mem[target][p] = 0
       /\ \E q \in Mismatches(pre[target], id) :
            q > ret[id] /\ mem[target][q] = pre[target][q]
       /\ Row(ret[id]) > id + 1
  /\ \E id \in done : ret[id] = 0 /\ ScanSet(id) # {}

\* C10: when init_conv2d_image, then conv2d_3x3_shifted_unrolled_parallel
\* with the kernel {1,2,1,2,4,2,1,2,1}, then verify_conv2d_image run on an
\* image of at least 3x3 elements, each phase after the one before has
\* ended on every lane, verify returns 0 on every lane and every interior
\* element of the output is 0 afterwards.
C10_PipelineVerifies ==
  (/\ EndToEnd /\ Unmodified /\ call = "verify"
   /\ in_x >= 3 /\ in_y >= 3) =>
     /\ \A id \in done : ret[id] = 0
     /\ AllDone =>
          \A p \in Interior(1, 1) : mem["shifted_unrolled"][p] = 0

C10_Witness ==
  /\ EndToEnd /\ Unmodified /\ call = "verify" /\ AllDone
  /\ in_x = MaxX /\ in_y = RowPeriod + 2 /\ numThreads = MaxThreads
  /\ \A id \in Lanes : ret[id] = 0
  /\ \A p \in Interior(1, 1) : pre["shifted_unrolled"][p] > 0
  /\ \A p \in Interior(1, 1) : mem["shifted_unrolled"][p] = 0

====
